---------------------------- MODULE Spec2Model ----------------------------
(***************************************************************************)
(* Model of the computational cells of the learn-citrination notebooks:    *)
(*   get_stoich, enthalpy_of_formation      (phase-diagram notebook)       *)
(*   probability_improvement                (experimental-design notebook) *)
(*                                                                         *)
(* Modelling conventions.                                                  *)
(*  - A Python number is a record [t, num, den]: t is "int" or "float",    *)
(*    num/den is its value as a fraction in lowest terms (den > 0).        *)
(*    Arithmetic is exact: binary64 rounding, overflow and NaN are not     *)
(*    modelled, so every statement below is about the real-number value    *)
(*    the Python expression denotes.                                       *)
(*  - A raised ZeroDivisionError is the value ZeroDivisionError; it        *)
(*    propagates through every enclosing arithmetic expression.            *)
(*  - A Python str is a sequence of one-character strings.                 *)
(*  - scipy.special.erf is a table of its values at equally spaced knots,  *)
(*    interpolated linearly in between and equal to 1 or -1 beyond them.   *)
(***************************************************************************)
EXTENDS Integers, Sequences, FiniteSets, TLC

VARIABLES
    pc,            \* position of the running cell
    AlCu_formula,  \* argument of get_stoich
    stoich,        \* value returned by get_stoich
    energy, n_Al, n_Cu, energy_Al, energy_Cu,  \* arguments of enthalpy_of_formation
    enthalpy,      \* value returned by enthalpy_of_formation
    mean, sigma, baseline,                     \* arguments of probability_improvement
    LI,            \* value returned by probability_improvement
    prev,          \* arguments and results of the earlier calls of the function, latest first
    AlCu_pifs,     \* phase diagram: the records read from example_data
    points,        \* phase diagram: the list of (Cu fraction, enthalpy) points
    idx,           \* position of the running for loop in its list
    heap,          \* experimental design: the dict objects, an object's id is its index
    hits,          \* experimental design: ids of the hits' extracted dicts
    full_data, known_subset, unknown_subset,   \* experimental design: lists of ids
    baseline_ZT,   \* experimental design: best known ZT
    predictions,   \* experimental design: the model's predictions for unknown_subset
    files,         \* the files written, name to content
    top_predictions, df, table,   \* experimental design: filtered predictions, data frame, table shown
    pif_properties, found,        \* low-level lookup: the properties of the PIF, the value of next(...)
    dataset_id, fp, uploads,      \* upload script: id of the new dataset, the open file, the upload calls
    my_pif                        \* upload script: the PIF object to save

vars == <<pc, AlCu_formula, stoich, energy, n_Al, n_Cu, energy_Al, energy_Cu,
          enthalpy, mean, sigma, baseline, LI, prev, AlCu_pifs, points, idx,
          heap, hits, full_data, known_subset, unknown_subset, baseline_ZT,
          predictions, files, top_predictions, df, table, pif_properties, found,
          dataset_id, fp, uploads, my_pif>>

stoichVars == <<AlCu_formula, stoich>>
enthalpyVars == <<energy, n_Al, n_Cu, energy_Al, energy_Cu, enthalpy>>
liVars == <<mean, sigma, baseline, LI>>
pointsVars == <<AlCu_pifs, points, idx>>
\* the variables of the notebook cells, which no function call touches
splitVars == <<heap, hits, full_data, known_subset, unknown_subset>>
scoreVars == <<baseline_ZT, predictions>>
designVars == <<splitVars, scoreVars, files>>
tableVars == <<top_predictions, df, table>>
lookupVars == <<pif_properties, found>>
uploadVars == <<dataset_id, fp, uploads, my_pif>>
cellVars == <<pointsVars, designVars, tableVars, lookupVars, uploadVars>>

(***************************************************************************)
(* Bounds of the explored inputs.                                          *)
(***************************************************************************)
MaxLen == 5        \* longest arbitrary input string
MaxCountLen == 3   \* longest count text in a generated formula
MaxSuffixLen == 1  \* longest text after the Cu count in a generated formula
MaxEnergy == 3     \* total energies range over -MaxEnergy/2 .. MaxEnergy/2
MaxRefEnergy == 1  \* reference energies range over -MaxRefEnergy/2 .. MaxRefEnergy/2
MaxCount == 2      \* largest stoichiometric count passed to enthalpy_of_formation
MaxCalls == 2      \* calls of one function in a run
MaxZT == 4         \* means and baselines range over -MaxZT/2 .. MaxZT/2
MaxSigma == 4      \* standard deviations range over 0 .. MaxSigma/4
MaxPifs == 2       \* most records in AlCu_pifs

(***************************************************************************)
(* Python numbers.                                                         *)
(***************************************************************************)
Abs(i) == IF i < 0 THEN -i ELSE i

RECURSIVE GCD(_, _)
GCD(a, b) == IF b = 0 THEN a ELSE GCD(b, a % b)

\* the fraction n/d (d # 0) in lowest terms with a positive denominator
Num(ty, n, d) ==
    LET g == GCD(Abs(n), Abs(d))
        s == IF d < 0 THEN -1 ELSE 1
    IN  [t |-> ty, num |-> s * (n \div g), den |-> s * (d \div g)]

PyInt(i) == [t |-> "int", num |-> i, den |-> 1]
PyFloat(n, d) == Num("float", n, d)

Zero == PyInt(0)

ZeroDivisionError == [t |-> "ZeroDivisionError", num |-> 0, den |-> 1]
None == [t |-> "None", num |-> 0, den |-> 1]

IsNone(a) == a.t = "None"
IsNumber(a) == a.t \in {"int", "float"}
Raised(a) == a.t = "ZeroDivisionError"

\* result type of a binary arithmetic operator other than true division
ArithType(a, b) == IF a.t = "int" /\ b.t = "int" THEN "int" ELSE "float"

\* Python comparisons of numbers compare values, whatever the types
PyEq(a, b) == a.num * b.den = b.num * a.den
PyLt(a, b) == a.num * b.den < b.num * a.den
PyLe(a, b) == a.num * b.den <= b.num * a.den

PyAdd(a, b) ==
    IF Raised(a) \/ Raised(b) THEN ZeroDivisionError
    ELSE Num(ArithType(a, b), a.num * b.den + b.num * a.den, a.den * b.den)

PySub(a, b) ==
    IF Raised(a) \/ Raised(b) THEN ZeroDivisionError
    ELSE Num(ArithType(a, b), a.num * b.den - b.num * a.den, a.den * b.den)

PyMul(a, b) ==
    IF Raised(a) \/ Raised(b) THEN ZeroDivisionError
    ELSE Num(ArithType(a, b), a.num * b.num, a.den * b.den)

\* true division: always a float, ZeroDivisionError on a zero divisor
PyDiv(a, b) ==
    IF Raised(a) \/ Raised(b) THEN ZeroDivisionError
    ELSE IF b.num = 0 THEN ZeroDivisionError
    ELSE Num("float", a.num * b.den, a.den * b.num)

(***************************************************************************)
(* Python strings and the regular expression of get_stoich.                *)
(***************************************************************************)
Digits == {"0", "1", "2", "3", "4", "5", "6", "7", "8", "9"}

DigitValue(c) ==
    CASE c = "0" -> 0 [] c = "1" -> 1 [] c = "2" -> 2 [] c = "3" -> 3
      [] c = "4" -> 4 [] c = "5" -> 5 [] c = "6" -> 6 [] c = "7" -> 7
      [] c = "8" -> 8 [] c = "9" -> 9

\* s[i..j], empty when j < i
Slice(s, i, j) == SubSeq(s, i, j)

\* the literal lit occurs in s at position i
LiteralAt(s, i, lit) ==
    /\ i + Len(lit) - 1 <= Len(s)
    /\ Slice(s, i, i + Len(lit) - 1) = lit

\* position after the longest run of [0-9] that starts at position i
RECURSIVE DigitRunEnd(_, _)
DigitRunEnd(s, i) ==
    IF i <= Len(s) /\ s[i] \in Digits THEN DigitRunEnd(s, i + 1) ELSE i

\* re.search: the same pattern tried at every start position
re_search(s) ==
    LET starts == {p \in 1..Len(s) : LiteralAt(s, p, <<"A", "l">>)}
        ok == {p \in starts :
                 \E k \in (p + 2)..DigitRunEnd(s, p + 2) : LiteralAt(s, k, <<"C", "u">>)}
    IN  IF ok = {} THEN None
        ELSE LET p == CHOOSE q \in ok : \A r \in ok : q <= r
                 k == CHOOSE c \in (p + 2)..DigitRunEnd(s, p + 2) :
                        LiteralAt(s, c, <<"C", "u">>)
             IN  [t |-> "match",
                  group1 |-> Slice(s, p + 2, k - 1),
                  group2 |-> Slice(s, k + 2, DigitRunEnd(s, k + 2) - 1)]

\* re.fullmatch: the pattern has to use up the whole of s
re_fullmatch(s) ==
    IF ~LiteralAt(s, 1, <<"A", "l">>) THEN None
    ELSE LET e1 == DigitRunEnd(s, 3)
             fits == {k \in 3..e1 : /\ LiteralAt(s, k, <<"C", "u">>)
                                    /\ DigitRunEnd(s, k + 2) = Len(s) + 1}
         IN  IF fits = {} THEN None
             ELSE LET k == CHOOSE c \in fits : \A d \in fits : d <= c
                  IN  [t |-> "match",
                       group1 |-> Slice(s, 3, k - 1),
                       group2 |-> Slice(s, k + 2, Len(s))]

\* re.match(r"Al([0-9]*)Cu([0-9]*)", s): anchored at the start of s; each
\* [0-9]* is greedy and gives digits back until the rest of the pattern fits
re_match(s) ==
    IF ~LiteralAt(s, 1, <<"A", "l">>) THEN None
    ELSE LET e1 == DigitRunEnd(s, 3)
             fits == {k \in 3..e1 : LiteralAt(s, k, <<"C", "u">>)}
         IN  IF fits = {} THEN None
             ELSE LET k == CHOOSE c \in fits : \A d \in fits : d <= c
                      e2 == DigitRunEnd(s, k + 2)
                  IN  [t |-> "match",
                       group1 |-> Slice(s, 3, k - 1),
                       group2 |-> Slice(s, k + 2, e2 - 1)]

\* float(text) for a non-empty text of decimal digits
RECURSIVE DigitsToInt(_)
DigitsToInt(txt) ==
    IF txt = <<>> THEN 0
    ELSE 10 * DigitsToInt(Slice(txt, 1, Len(txt) - 1)) + DigitValue(txt[Len(txt)])

\* only the first character converted
float_of_first_digit(txt) == PyFloat(DigitValue(txt[1]), 1)

float_of_digits(txt) == PyFloat(DigitsToInt(txt), 1)

\* get_stoich with the default count 0 in place of 1
get_stoich_default0(formula) ==
    LET m == re_match(formula)
    IN  IF IsNone(m) THEN <<PyInt(0), PyInt(0)>>
        ELSE <<IF Len(m.group1) > 0 THEN float_of_digits(m.group1) ELSE PyInt(0),
               IF Len(m.group2) > 0 THEN float_of_digits(m.group2) ELSE PyInt(0)>>

get_stoich(formula) ==
    LET m == re_match(formula)
    IN  IF IsNone(m) THEN <<PyInt(0), PyInt(0)>>
        ELSE <<IF Len(m.group1) > 0 THEN float_of_digits(m.group1) ELSE PyInt(1),
               IF Len(m.group2) > 0 THEN float_of_digits(m.group2) ELSE PyInt(1)>>


(***************************************************************************)
(* enthalpy_of_formation.                                                  *)
(***************************************************************************)
\* the division binding tighter than the subtractions (parentheses dropped)
enthalpy_of_formation_unparenthesised(e, nAl, nCu, eAl, eCu) ==
    PySub(PySub(e, PyMul(nAl, eAl)), PyDiv(PyMul(nCu, eCu), PyAdd(nAl, nCu)))

\* the Cu term added where it is subtracted
enthalpy_of_formation_plus(e, nAl, nCu, eAl, eCu) ==
    PyDiv(PyAdd(PySub(e, PyMul(nAl, eAl)), PyMul(nCu, eCu)), PyAdd(nAl, nCu))

\* a guard returning 0.0 for an empty stoichiometry
enthalpy_of_formation_guarded(e, nAl, nCu, eAl, eCu) ==
    IF PyEq(PyAdd(nAl, nCu), PyInt(0)) THEN PyFloat(0, 1)
    ELSE PyDiv(PySub(PySub(e, PyMul(nAl, eAl)), PyMul(nCu, eCu)), PyAdd(nAl, nCu))

\* the two reference energies exchanged
enthalpy_of_formation_swapped(e, nAl, nCu, eAl, eCu) ==
    PyDiv(PySub(PySub(e, PyMul(nAl, eCu)), PyMul(nCu, eAl)), PyAdd(nAl, nCu))

enthalpy_of_formation(e, nAl, nCu, eAl, eCu) ==
    PyDiv(PySub(PySub(e, PyMul(nAl, eAl)), PyMul(nCu, eCu)), PyAdd(nAl, nCu))

(***************************************************************************)
(* probability_improvement.                                                *)
(***************************************************************************)
\* math.sqrt(2.0) = 1.41421..., as the fraction 99/70 = 1.41428...
sqrt2 == PyFloat(99, 70)

\* scipy.special.erf at the knots x = k / (2 * sqrt(2)), k = 1..7, in
\* thousandths (erf(0) = 0); from the last knot on the value is 1.000
ErfTable == <<383, 683, 866, 954, 988, 997, 1000>>
ErfScale == 1000

\* erf is odd; between two knots the table is interpolated linearly
erf(x) ==
    IF Raised(x) THEN ZeroDivisionError
    ELSE LET y == PyMul(PyFloat(Abs(x.num), x.den), PyMul(PyInt(2), sqrt2))
             k == y.num \div y.den
             lo == IF k = 0 THEN 0 ELSE ErfTable[k]
             sgn == IF x.num < 0 THEN -1 ELSE 1
         IN  IF k >= Len(ErfTable) THEN PyFloat(sgn, 1)
             ELSE PyFloat(sgn * (lo * y.den + (y.num - k * y.den) * (ErfTable[k + 1] - lo)),
                          ErfScale * y.den)

\* float(v) of a number
float_of_number(v) == IF Raised(v) THEN v ELSE PyFloat(v.num, v.den)

Half == PyFloat(1, 2)
One == PyFloat(1, 1)

\* the factor 0.5 left out
probability_improvement_unscaled(m, s, b) ==
    float_of_number(PyAdd(One, erf(PyDiv(PySub(m, b), PyMul(s, sqrt2)))))

\* the baseline left out of the difference
probability_improvement_no_baseline(m, s, b) ==
    float_of_number(PyMul(Half, PyAdd(One, erf(PyDiv(m, PyMul(s, sqrt2))))))

\* the distance from the baseline in place of the signed difference
probability_improvement_two_sided(m, s, b) ==
    LET d == PySub(m, b)
    IN  float_of_number(PyMul(Half, PyAdd(One,
            erf(PyDiv(PyFloat(Abs(d.num), d.den), PyMul(s, sqrt2))))))

\* mean and baseline exchanged
probability_improvement_swapped(m, s, b) ==
    float_of_number(PyMul(Half, PyAdd(One, erf(PyDiv(PySub(b, m), PyMul(s, sqrt2))))))

\* a zero sigma answered with 0 or 1 instead of a division
probability_improvement_guarded(m, s, b) ==
    IF PyEq(s, Zero) THEN (IF PyLt(b, m) THEN One ELSE PyFloat(0, 1))
    ELSE float_of_number(PyMul(Half, PyAdd(One, erf(PyDiv(PySub(m, b), PyMul(s, sqrt2))))))

probability_improvement(m, s, b) ==
    float_of_number(PyMul(Half, PyAdd(One, erf(PyDiv(PySub(m, b), PyMul(s, sqrt2))))))

(***************************************************************************)
(* Inputs of get_stoich: every string over Alphabet up to MaxLen, and the  *)
(* longer strings "Al" count "Cu" count suffix.                            *)
(***************************************************************************)
Alphabet == {"A", "a", "l", "C", "u", "0", "4", ".", "O"}
CountAlphabet == {"0", "4", "."}
SuffixAlphabet == {"O", "4"}

StringsUpTo(chars, n) == UNION {[1..k -> chars] : k \in 0..n}

Al == <<"A", "l">>
Cu == <<"C", "u">>

FormulaInputs ==
    StringsUpTo(Alphabet, MaxLen)
    \cup {Al \o a \o Cu \o b \o x :
             a \in StringsUpTo(CountAlphabet, MaxCountLen),
             b \in StringsUpTo(CountAlphabet, MaxCountLen),
             x \in StringsUpTo(SuffixAlphabet, MaxSuffixLen)}

\* the variables of the cells that are not running
IdleEnthalpy ==
    /\ energy = None /\ n_Al = None /\ n_Cu = None
    /\ energy_Al = None /\ energy_Cu = None /\ enthalpy = None

IdleStoich == AlCu_formula = <<>> /\ stoich = None

IdleLI == mean = None /\ sigma = None /\ baseline = None /\ LI = None

IdlePoints == AlCu_pifs = <<>> /\ points = <<>> /\ idx = 0

IdleSplit ==
    /\ heap = <<>> /\ hits = <<>> /\ full_data = <<>>
    /\ known_subset = <<>> /\ unknown_subset = <<>>
IdleScore == baseline_ZT = None /\ predictions = <<>>
\* the files the script writes, and the content of a file that does not exist
FileNames == {"known_thermoelectrics.csv"}
NoFile == <<"ENOENT">>
IdleDesign == IdleSplit /\ IdleScore /\ files = [n \in FileNames |-> NoFile]
IdleTable == top_predictions = <<>> /\ df = <<>> /\ table = <<>>
IdleLookup == pif_properties = <<>> /\ found = None
IdleUpload == dataset_id = None /\ fp = "unbound" /\ uploads = <<>> /\ my_pif = None
IdleCells == IdlePoints /\ IdleDesign /\ IdleTable /\ IdleLookup /\ IdleUpload

(***************************************************************************)
(* The cell calling get_stoich on one formula.                             *)
(***************************************************************************)
InitStoich ==
    /\ pc = "get_stoich"
    /\ AlCu_formula \in FormulaInputs
    /\ stoich = None
    /\ prev = <<>>
    /\ IdleEnthalpy
    /\ IdleLI
    /\ IdleCells

CallGetStoich ==
    /\ pc = "get_stoich"
    /\ stoich' = get_stoich(AlCu_formula)
    /\ pc' = "stoich_returned"
    /\ UNCHANGED <<AlCu_formula, enthalpyVars, liVars, prev, cellVars>>

NextStoich == CallGetStoich

SpecStoich == InitStoich /\ [][NextStoich]_vars


(***************************************************************************)
(* Claims about get_stoich (specification SpecStoich).                     *)
(***************************************************************************)
AllDigits(txt) == \A i \in 1..Len(txt) : txt[i] \in Digits

RECURSIVE Pow10(_)
Pow10(k) == IF k = 0 THEN 1 ELSE 10 * Pow10(k - 1)

\* the number a text of decimal digits denotes, most significant digit first
RECURSIVE NumericValue(_)
NumericValue(txt) ==
    IF txt = <<>> THEN 0
    ELSE DigitValue(Head(txt)) * Pow10(Len(txt) - 1) + NumericValue(Tail(txt))

\* a decimal literal with a fractional part: digits, a point, at least one digit
IsDecimal(txt) ==
    \E p \in 1..Len(txt) :
        /\ txt[p] = "."
        /\ p < Len(txt)
        /\ AllDigits(Slice(txt, 1, p - 1))
        /\ AllDigits(Slice(txt, p + 1, Len(txt)))

\* the count a text denotes: 1 when omitted, else its integer or decimal value
CountValue(txt) ==
    IF txt = <<>> THEN PyInt(1)
    ELSE IF AllDigits(txt) THEN PyInt(NumericValue(txt))
    ELSE LET p == CHOOSE q \in 1..Len(txt) : txt[q] = "."
             whole == Slice(txt, 1, p - 1)
             frac == Slice(txt, p + 1, Len(txt))
         IN  PyFloat(NumericValue(whole) * Pow10(Len(frac)) + NumericValue(frac),
                     Pow10(Len(frac)))

\* f is "Al" a "Cu" b where a = f[3..i] and b is the rest
SplitsAt(f, i) == LiteralAt(f, 1, Al) /\ LiteralAt(f, i + 1, Cu)
CountAl(f, i) == Slice(f, 3, i)
CountCu(f, i) == Slice(f, i + 3, Len(f))

\* the pattern Al[0-9]*Cu[0-9]* fits a prefix of f
MatchesAtStart(f) ==
    \E i \in 2..Len(f) : SplitsAt(f, i) /\ AllDigits(CountAl(f, i))

\* C1: for "Al" a "Cu" b with a and b possibly empty digit strings, get_stoich
\* returns (value of a, or 1 when a is empty; value of b, or 1 when b is empty).
C1_DigitCounts ==
    pc = "stoich_returned" =>
        \A i \in 2..Len(AlCu_formula) :
            (/\ SplitsAt(AlCu_formula, i)
             /\ AllDigits(CountAl(AlCu_formula, i))
             /\ AllDigits(CountCu(AlCu_formula, i)))
            => /\ IsNumber(stoich[1]) /\ IsNumber(stoich[2])
               /\ PyEq(stoich[1], CountValue(CountAl(AlCu_formula, i)))
               /\ PyEq(stoich[2], CountValue(CountCu(AlCu_formula, i)))

\* "Al40Cu" has been parsed: a given count and an omitted one
C1_Witness ==
    /\ pc = "stoich_returned"
    /\ AlCu_formula = <<"A", "l", "4", "0", "C", "u">>
    /\ PyEq(stoich[1], PyInt(40))
    /\ PyEq(stoich[2], PyInt(1))

\* C2: for "Al" a "Cu" b where a or b is a decimal literal with a fractional
\* part (the other a count or omitted), get_stoich returns those decimal values.
C2_DecimalCounts ==
    pc = "stoich_returned" =>
        \A i \in 2..Len(AlCu_formula) :
            LET a == CountAl(AlCu_formula, i)
                b == CountCu(AlCu_formula, i)
            IN  (/\ SplitsAt(AlCu_formula, i)
                 /\ AllDigits(a) \/ IsDecimal(a)
                 /\ AllDigits(b) \/ IsDecimal(b)
                 /\ IsDecimal(a) \/ IsDecimal(b))
                => /\ PyEq(stoich[1], CountValue(a))
                   /\ PyEq(stoich[2], CountValue(b))

\* C3: an input that the pattern does not fit at its start gives the pair of
\* integers (0, 0), and no error.
C3_NoMatchIsZeroPair ==
    (pc = "stoich_returned" /\ ~MatchesAtStart(AlCu_formula))
        => stoich = <<PyInt(0), PyInt(0)>>

\* "Al4" (no Cu) has been parsed
C3_Witness ==
    /\ pc = "stoich_returned"
    /\ AlCu_formula = <<"A", "l", "4">>
    /\ ~MatchesAtStart(AlCu_formula)
    /\ stoich = <<PyInt(0), PyInt(0)>>


\* for an input the pattern fits: the digits between "Al" and "Cu", and the
\* longest run of digits after "Cu"
AlCountText(f) ==
    LET i == CHOOSE k \in 2..Len(f) : SplitsAt(f, k) /\ AllDigits(CountAl(f, k))
    IN  CountAl(f, i)

CuCountText(f) ==
    LET i == CHOOSE k \in 2..Len(f) : SplitsAt(f, k) /\ AllDigits(CountAl(f, k))
        j == CHOOSE k \in (i + 2)..Len(f) :
                /\ AllDigits(Slice(f, i + 3, k))
                /\ k = Len(f) \/ f[k + 1] \notin Digits
    IN  Slice(f, i + 3, j)

\* a count written with zeros only
IsZeroText(txt) == txt # <<>> /\ \A i \in 1..Len(txt) : txt[i] = "0"

ReturnedZeroPair ==
    pc = "stoich_returned" /\ PyEq(stoich[1], Zero) /\ PyEq(stoich[2], Zero)

\* C14 as stated: a pair equal to (0, 0) is returned only for inputs that the
\* pattern does not fit.
C14_ZeroPairOnlyWithoutMatch == ReturnedZeroPair => ~MatchesAtStart(AlCu_formula)

\* C14 amended: a pair equal to (0, 0) is returned only for inputs that the
\* pattern does not fit, or that it fits with both counts written as zeros.
C14_ZeroPairOnlyForZeroCounts ==
    ReturnedZeroPair =>
        \/ ~MatchesAtStart(AlCu_formula)
        \/ /\ IsZeroText(AlCountText(AlCu_formula))
           /\ IsZeroText(CuCountText(AlCu_formula))

\* "Al0Cu0" has been parsed as (0.0, 0.0)
C14_Witness ==
    /\ ReturnedZeroPair
    /\ AlCu_formula = <<"A", "l", "0", "C", "u", "0">>
    /\ MatchesAtStart(AlCu_formula)
    /\ stoich = <<PyFloat(0, 1), PyFloat(0, 1)>>

\* C15: for an input the pattern fits, both returned components are floats,
\* an omitted count that defaults to 1 included.
C15_BothComponentsFloat ==
    (pc = "stoich_returned" /\ MatchesAtStart(AlCu_formula))
        => stoich[1].t = "float" /\ stoich[2].t = "float"

\* the text is "Al" a "Cu" b with a and b digit strings, possibly empty
IsAlCuText(txt) ==
    \E i \in 2..Len(txt) :
        SplitsAt(txt, i) /\ AllDigits(CountAl(txt, i)) /\ AllDigits(CountCu(txt, i))

\* C25: for a prefix "Al" a "Cu" b (a, b digit strings) followed by a suffix
\* that does not begin with a digit, get_stoich returns what it returns for
\* the prefix alone: the text after the Cu count is ignored, not rejected.
C25_SuffixIgnored ==
    pc = "stoich_returned" =>
        \A j \in 4..Len(AlCu_formula) :
            LET prefix == Slice(AlCu_formula, 1, j)
                suffix == Slice(AlCu_formula, j + 1, Len(AlCu_formula))
            IN  (IsAlCuText(prefix) /\ (suffix = <<>> \/ suffix[1] \notin Digits))
                    => /\ stoich = get_stoich(prefix)
                       /\ PyEq(stoich[1], CountValue(AlCountText(prefix)))
                       /\ PyEq(stoich[2], CountValue(CuCountText(prefix)))

\* "Al4Cu4O" has been parsed as "Al4Cu4" is
C25_Witness ==
    /\ pc = "stoich_returned"
    /\ AlCu_formula = <<"A", "l", "4", "C", "u", "4", "O">>
    /\ stoich = <<PyFloat(4, 1), PyFloat(4, 1)>>
    /\ IsAlCuText(Slice(AlCu_formula, 1, 6))

(***************************************************************************)
(* A script calling enthalpy_of_formation, then calling it again with      *)
(* another total energy for the same stoichiometry and references.         *)
(***************************************************************************)
Energies == {PyFloat(k, 2) : k \in -MaxEnergy..MaxEnergy}
RefEnergies == {PyFloat(k, 2) : k \in -MaxRefEnergy..MaxRefEnergy}
\* counts as get_stoich returns them: the integers 0 and 1, and parsed floats
Counts == {PyInt(0), PyInt(1)} \cup {PyFloat(k, 1) : k \in 0..MaxCount}

InitEnthalpy ==
    /\ pc = "enthalpy_of_formation"
    /\ energy \in Energies
    /\ n_Al \in Counts
    /\ n_Cu \in Counts
    /\ energy_Al \in RefEnergies
    /\ energy_Cu \in RefEnergies
    /\ enthalpy = None
    /\ prev = <<>>
    /\ IdleStoich
    /\ IdleLI
    /\ IdleCells

CallEnthalpy ==
    /\ pc = "enthalpy_of_formation"
    /\ enthalpy' = enthalpy_of_formation(energy, n_Al, n_Cu, energy_Al, energy_Cu)
    /\ pc' = "enthalpy_returned"
    /\ UNCHANGED <<energy, n_Al, n_Cu, energy_Al, energy_Cu, stoichVars, liVars, prev, cellVars>>

CallEnthalpyAgain ==
    /\ pc = "enthalpy_returned"
    /\ ~Raised(enthalpy)
    /\ Len(prev) + 1 < MaxCalls
    /\ \E e \in Energies :
          /\ energy' = e
          /\ enthalpy' = enthalpy_of_formation(e, n_Al, n_Cu, energy_Al, energy_Cu)
    /\ prev' = <<[energy |-> energy, enthalpy |-> enthalpy]>> \o prev
    /\ UNCHANGED <<pc, n_Al, n_Cu, energy_Al, energy_Cu, stoichVars, liVars, cellVars>>

NextEnthalpy == CallEnthalpy \/ CallEnthalpyAgain

SpecEnthalpy == InitEnthalpy /\ [][NextEnthalpy]_vars

(***************************************************************************)
(* Claims about enthalpy_of_formation (specification SpecEnthalpy).        *)
(***************************************************************************)
\* energy - n_Al * energy_Al - n_Cu * energy_Cu for a total energy e
Numerator(e) == PySub(PySub(e, PyMul(n_Al, energy_Al)), PyMul(n_Cu, energy_Cu))

TotalCount == PyAdd(n_Al, n_Cu)

\* C4: when n_Al + n_Cu # 0 the result r satisfies
\* r * (n_Al + n_Cu) = energy - n_Al * energy_Al - n_Cu * energy_Cu.
C4_EnthalpyTimesCount ==
    (pc = "enthalpy_returned" /\ ~PyEq(TotalCount, Zero))
        => /\ IsNumber(enthalpy)
           /\ PyEq(PyMul(enthalpy, TotalCount), Numerator(energy))

\* a call with two elements present, a non-zero numerator and a count above 1
C4_Witness ==
    /\ pc = "enthalpy_returned"
    /\ PyLt(Zero, n_Al) /\ PyLt(Zero, n_Cu)
    /\ ~PyEq(Numerator(energy), Zero)
    /\ IsNumber(enthalpy)
    /\ ~PyEq(enthalpy, Numerator(energy))

\* C9: for n > 0, enthalpy_of_formation(n * e_Al, n, 0, e_Al, e_Cu) = 0.
C9_PureAlIsZero ==
    (/\ pc = "enthalpy_returned"
     /\ PyLt(Zero, n_Al)
     /\ PyEq(n_Cu, Zero)
     /\ PyEq(energy, PyMul(n_Al, energy_Al)))
        => IsNumber(enthalpy) /\ PyEq(enthalpy, Zero)

\* pure Al with n = 2, a non-zero energy and a different Cu reference
C9_Witness ==
    /\ pc = "enthalpy_returned"
    /\ PyEq(n_Al, PyInt(2))
    /\ PyEq(n_Cu, Zero)
    /\ ~PyEq(energy_Al, Zero)
    /\ ~PyEq(energy_Cu, energy_Al)
    /\ PyEq(energy, PyMul(n_Al, energy_Al))
    /\ PyEq(enthalpy, Zero)

Factors == -2..3

\* C10: for fixed n_Al, n_Cu (n_Al + n_Cu # 0) and references, a numerator k
\* times as large gives a result k times as large, and an energy larger by d
\* gives a result larger by d / (n_Al + n_Cu).
C10_LinearInEnergy ==
    (pc = "enthalpy_returned" /\ prev # <<>> /\ ~PyEq(TotalCount, Zero))
        => \A i \in 1..Len(prev) :
             /\ \A k \in Factors :
                  PyEq(Numerator(energy), PyMul(PyInt(k), Numerator(prev[i].energy)))
                    => PyEq(enthalpy, PyMul(PyInt(k), prev[i].enthalpy))
             /\ PyEq(PySub(enthalpy, prev[i].enthalpy),
                     PyDiv(PySub(energy, prev[i].energy), TotalCount))

\* a second call whose numerator is twice the first and whose count is above 1
C10_Witness ==
    /\ pc = "enthalpy_returned"
    /\ prev # <<>>
    /\ PyLt(PyInt(1), TotalCount)
    /\ ~PyEq(Numerator(prev[1].energy), Zero)
    /\ PyEq(Numerator(energy), PyMul(PyInt(2), Numerator(prev[1].energy)))
    /\ PyEq(enthalpy, PyMul(PyInt(2), prev[1].enthalpy))
    /\ ~PyEq(energy, prev[1].energy)


\* C11: when n_Al + n_Cu = 0 the call returns no value: the ZeroDivisionError
\* of the division leaves enthalpy_of_formation, whatever the energies are.
C11_ZeroCountRaises ==
    (pc = "enthalpy_returned" /\ PyEq(TotalCount, Zero))
        => Raised(enthalpy) /\ ~IsNumber(enthalpy)

\* a call with the counts 0.0 and 0 and a non-zero energy has raised
C11_Witness ==
    /\ pc = "enthalpy_returned"
    /\ n_Al = PyFloat(0, 1)
    /\ n_Cu = PyInt(0)
    /\ ~PyEq(energy, Zero)
    /\ ~PyEq(energy_Al, Zero)
    /\ Raised(enthalpy)

(***************************************************************************)
(* A script calling probability_improvement, then calling it again with    *)
(* another mean or another baseline for the same sigma.                    *)
(***************************************************************************)
ZTValues == {PyFloat(k, 2) : k \in -MaxZT..MaxZT}
Sigmas == {PyFloat(k, 4) : k \in 0..MaxSigma}

InitLI ==
    /\ pc = "probability_improvement"
    /\ mean \in ZTValues
    /\ sigma \in Sigmas
    /\ baseline \in ZTValues
    /\ LI = None
    /\ prev = <<>>
    /\ IdleStoich
    /\ IdleEnthalpy
    /\ IdleCells

CallProbabilityImprovement ==
    /\ pc = "probability_improvement"
    /\ LI' = probability_improvement(mean, sigma, baseline)
    /\ pc' = "LI_returned"
    /\ UNCHANGED <<mean, sigma, baseline, stoichVars, enthalpyVars, prev, cellVars>>

CallProbabilityImprovementAgain ==
    /\ pc = "LI_returned"
    /\ ~Raised(LI)
    /\ Len(prev) + 1 < MaxCalls
    /\ \E v \in ZTValues :
          \/ /\ mean' = v
             /\ baseline' = baseline
             /\ LI' = probability_improvement(v, sigma, baseline)
          \/ /\ baseline' = v
             /\ mean' = mean
             /\ LI' = probability_improvement(mean, sigma, v)
    /\ prev' = <<[mean |-> mean, baseline |-> baseline, LI |-> LI]>> \o prev
    /\ UNCHANGED <<pc, sigma, stoichVars, enthalpyVars, cellVars>>

NextLI == CallProbabilityImprovement \/ CallProbabilityImprovementAgain

SpecLI == InitLI /\ [][NextLI]_vars

(***************************************************************************)
(* Claims about probability_improvement (specification SpecLI).            *)
(***************************************************************************)
\* C5: for sigma > 0 the returned value p satisfies 0 <= p <= 1.
C5_LIInUnitInterval ==
    (pc = "LI_returned" /\ PyLt(Zero, sigma))
        => IsNumber(LI) /\ PyLe(Zero, LI) /\ PyLe(LI, One)

\* results strictly inside the interval and at its upper end are both returned
C5_Witness ==
    /\ pc = "LI_returned"
    /\ PyLt(Zero, sigma)
    /\ prev # <<>>
    /\ PyEq(LI, One)
    /\ PyLt(Zero, prev[1].LI) /\ PyLt(prev[1].LI, Half)

\* C6: for sigma > 0 and baseline = mean the returned value is exactly 0.5.
C6_HalfAtBaseline ==
    (pc = "LI_returned" /\ PyLt(Zero, sigma) /\ PyEq(mean, baseline))
        => IsNumber(LI) /\ PyEq(LI, Half)

\* a call with baseline = mean = 1.5
C6_Witness ==
    /\ pc = "LI_returned"
    /\ PyLt(Zero, sigma)
    /\ PyEq(mean, PyFloat(3, 2))
    /\ PyEq(baseline, mean)
    /\ PyEq(LI, Half)

\* C7: for fixed sigma > 0 the result does not decrease when the mean grows
\* (same baseline) and does not increase when the baseline grows (same mean).
C7_Monotone ==
    (pc = "LI_returned" /\ PyLt(Zero, sigma))
        => \A i \in 1..Len(prev) :
             /\ (PyEq(baseline, prev[i].baseline) /\ PyLe(prev[i].mean, mean))
                   => PyLe(prev[i].LI, LI)
             /\ (PyEq(mean, prev[i].mean) /\ PyLe(prev[i].baseline, baseline))
                   => PyLe(LI, prev[i].LI)

\* two calls with one baseline where the larger mean got the larger result
C7_Witness ==
    /\ pc = "LI_returned"
    /\ PyLt(Zero, sigma)
    /\ prev # <<>>
    /\ PyEq(baseline, prev[1].baseline)
    /\ PyLt(prev[1].mean, mean)
    /\ PyLt(prev[1].LI, LI)

\* C8: for sigma > 0, mean < baseline gives a result below 0.5 and
\* mean > baseline a result above 0.5.
C8_SideOfHalf ==
    (pc = "LI_returned" /\ PyLt(Zero, sigma))
        => /\ PyLt(mean, baseline) => PyLt(LI, Half)
           /\ PyLt(baseline, mean) => PyLt(Half, LI)

\* a candidate predicted below the baseline, scored below one half but above 0
C8_Witness ==
    /\ pc = "LI_returned"
    /\ PyLt(Zero, sigma)
    /\ PyLt(mean, baseline)
    /\ PyLt(Zero, LI) /\ PyLt(LI, Half)


(***************************************************************************)
(* The phase-diagram cell: the loop over AlCu_pifs that fills points.      *)
(* A record is [chemical_formula, energy]: what ReadView(pif) gives for    *)
(* rv.chemical_formula and rv["Total Energy"].scalars[0].value.            *)
(***************************************************************************)
\* "or" in place of "and": a record with one zero count is skipped too
is_zero_either(nAl, nCu) == PyEq(nAl, PyInt(0)) \/ PyEq(nCu, PyInt(0))

\* a test that only the pair of ints (0, 0) passes
is_zero_pair_of_ints(nAl, nCu) == nAl = PyInt(0) /\ nCu = PyInt(0)

\* n_Al == 0 and n_Cu == 0
is_zero_pair(nAl, nCu) == PyEq(nAl, PyInt(0)) /\ PyEq(nCu, PyInt(0))

\* the Al count in the numerator
cu_fraction_of_Al(nAl, nCu) == PyDiv(nAl, PyAdd(nCu, nAl))

\* n_Cu / (n_Cu + n_Al)
cu_fraction(nAl, nCu) == PyDiv(nCu, PyAdd(nCu, nAl))

PifFormulas ==
    { <<"A", "l", "4">>,
      <<"A", "l", "C", "u">>,
      <<"A", "l", "C", "u", "4">>,
      <<"A", "l", "4", "C", "u", "4">>,
      <<"A", "l", "0", "C", "u", "0">>,
      <<"A", "l", "0", "C", "u", "4">>,
      <<"A", "l", "4", "C", "u", "0">> }

PifEnergies == {PyFloat(-MaxEnergy, 2), PyFloat(1, 2)}

PifRecords == [chemical_formula : PifFormulas, energy : PifEnergies]

\* points = [(0.0, 0.0), (1.0, 0.0)]
LiteralPoints == << <<PyFloat(0, 1), PyFloat(0, 1)>>, <<PyFloat(1, 1), PyFloat(0, 1)>> >>

InitPoints ==
    /\ pc = "points_loop"
    /\ AlCu_pifs \in UNION {[1..k -> PifRecords] : k \in 0..MaxPifs}
    /\ energy_Al \in RefEnergies
    /\ energy_Cu \in RefEnergies
    /\ points = LiteralPoints
    /\ idx = 1
    /\ energy = None /\ n_Al = None /\ n_Cu = None /\ enthalpy = None
    /\ prev = <<>>
    /\ IdleStoich
    /\ IdleLI
    /\ IdleDesign
    /\ IdleTable /\ IdleLookup /\ IdleUpload

\* one iteration of "for pif in AlCu_pifs"
PointsIteration ==
    /\ pc = "points_loop"
    /\ idx <= Len(AlCu_pifs)
    /\ LET rv == AlCu_pifs[idx]
           st == get_stoich(rv.chemical_formula)
           x == cu_fraction(st[1], st[2])
           h == enthalpy_of_formation(rv.energy, st[1], st[2], energy_Al, energy_Cu)
       IN  /\ energy' = rv.energy
           /\ n_Al' = st[1]
           /\ n_Cu' = st[2]
           /\ IF is_zero_pair(st[1], st[2])
                THEN /\ points' = points
                     /\ idx' = idx + 1
                     /\ pc' = pc
                ELSE IF Raised(x) \/ Raised(h)
                THEN /\ points' = points
                     /\ idx' = idx
                     /\ pc' = "ZeroDivisionError"
                ELSE /\ points' = Append(points, <<x, h>>)
                     /\ idx' = idx + 1
                     /\ pc' = pc
    /\ UNCHANGED <<AlCu_pifs, energy_Al, energy_Cu, enthalpy, stoichVars, liVars, prev,
                   designVars,
                   tableVars, lookupVars, uploadVars>>

\* the list is exhausted
PointsLoopEnd ==
    /\ pc = "points_loop"
    /\ idx > Len(AlCu_pifs)
    /\ pc' = "points_done"
    /\ UNCHANGED <<stoichVars, enthalpyVars, liVars, prev, pointsVars, designVars,
                   tableVars, lookupVars, uploadVars>>

NextPoints == PointsIteration \/ PointsLoopEnd

SpecPoints == InitPoints /\ [][NextPoints]_vars

(***************************************************************************)
(* Claims about the phase-diagram loop (specification SpecPoints).         *)
(***************************************************************************)
\* the record the loop is about to read
AtRecord == pc = "points_loop" /\ idx <= Len(AlCu_pifs)

\* C13: a record whose get_stoich result is the zero pair adds no point, and
\* neither division of the loop body is evaluated with n_Al + n_Cu = 0.
C13_ZeroPairSkipped ==
    [][AtRecord =>
         /\ pc' # "ZeroDivisionError"
         /\ (PyEq(n_Al', Zero) /\ PyEq(n_Cu', Zero)) => points' = points
         /\ points' # points => ~PyEq(PyAdd(n_Al', n_Cu'), Zero)]_vars

\* "Al0Cu0", parsed as (0.0, 0.0), has been skipped and the loop has gone on
C13_Witness ==
    /\ pc = "points_done"
    /\ Len(AlCu_pifs) = 2
    /\ AlCu_pifs[1].chemical_formula = <<"A", "l", "0", "C", "u", "0">>
    /\ AlCu_pifs[2].chemical_formula = <<"A", "l", "4", "C", "u", "4">>
    /\ Len(points) = 3

\* the list still starts with the two literal points
LiteralPointsKept == Len(points) >= 2 /\ SubSeq(points, 1, 2) = LiteralPoints

AtBoundary(p) == PyEq(p[1], Zero) \/ PyEq(p[1], One)

\* C16 as stated: the loop never appends a computed point whose Cu fraction
\* is 0 or 1, and the two literal points stay where they are.
C16_NoComputedBoundaryPoint ==
    /\ LiteralPointsKept
    /\ \A k \in 3..Len(points) : ~AtBoundary(points[k])

\* C16 amended: the two literal points are never modified or removed, and a
\* computed point with Cu fraction 0 (resp. 1) is appended only for a record
\* whose formula the pattern fits with the Cu (resp. Al) count written as
\* zeros.
C16_BoundaryOnlyForZeroCount ==
    /\ LiteralPointsKept
    /\ [][/\ LiteralPointsKept'
          /\ (AtRecord /\ points' # points) =>
                LET f == AlCu_pifs[idx].chemical_formula
                    p == points'[Len(points')]
                IN  /\ points' = Append(points, p)
                    /\ MatchesAtStart(f)
                    /\ PyEq(p[1], Zero) => IsZeroText(CuCountText(f))
                    /\ PyEq(p[1], One) => IsZeroText(AlCountText(f))
                    /\ AtBoundary(p) \/ (~PyEq(n_Al', Zero) /\ ~PyEq(n_Cu', Zero))]_vars

\* "Al4Cu0" has added a computed point at Cu fraction 0 after the literal ones
C16_Witness ==
    /\ pc = "points_done"
    /\ Len(AlCu_pifs) = 1
    /\ AlCu_pifs[1].chemical_formula = <<"A", "l", "4", "C", "u", "0">>
    /\ Len(points) = 3
    /\ PyEq(points[3][1], Zero)
    /\ LiteralPointsKept

\* the records that add a point: the pattern fits and not both counts are
\* written as zeros
AddsPoint(f) ==
    /\ MatchesAtStart(f)
    /\ ~(IsZeroText(AlCountText(f)) /\ IsZeroText(CuCountText(f)))

\* C26: at every step of the loop every point has a Cu fraction between 0
\* and 1, the list only grows (the entries it has stay as they are), and at
\* the end len(points) is 2 plus the number of records whose get_stoich
\* result is not the zero pair.
C26_PointsGrowInRange ==
    /\ [](\A k \in 1..Len(points) :
            /\ IsNumber(points[k][1])
            /\ PyLe(Zero, points[k][1])
            /\ PyLe(points[k][1], One))
    /\ [][/\ Len(points') >= Len(points)
          /\ SubSeq(points', 1, Len(points)) = points]_vars
    /\ [](pc = "points_done" =>
            Len(points) = 2 + Cardinality({k \in 1..Len(AlCu_pifs) :
                                             AddsPoint(AlCu_pifs[k].chemical_formula)}))

\* of the records "Al0Cu0" and "AlCu4" the second has added the point at 4/5
C26_Witness ==
    /\ pc = "points_done"
    /\ Len(AlCu_pifs) = 2
    /\ AlCu_pifs[1].chemical_formula = <<"A", "l", "0", "C", "u", "0">>
    /\ AlCu_pifs[2].chemical_formula = <<"A", "l", "C", "u", "4">>
    /\ Len(points) = 3
    /\ points[3][1] = PyFloat(4, 5)

(***************************************************************************)
(* The experimental-design script: lists, dicts and the split step.        *)
(* A dict is a function from its keys to its values; the dict objects live *)
(* in heap and the lists hold their ids, so that two lists can hold the    *)
(* same object.                                                            *)
(***************************************************************************)
KnownSize == 20    \* known_subset = full_data[:20]
MaxHits == 22      \* most hits the search returns

Min(a, b) == IF a <= b THEN a ELSE b

\* l[:n]
slice_to(l, n) == SubSeq(l, 1, Min(n, Len(l)))

\* l[n-1:], one element too many
slice_from_one_early(l, n) == SubSeq(l, IF Len(l) < n THEN Len(l) + 1 ELSE n, Len(l))

\* l[n:]
slice_from(l, n) == SubSeq(l, Min(n, Len(l)) + 1, Len(l))

\* del d[k], for a key the dict has
dict_del(d, k) == [x \in DOMAIN d \ {k} |-> d[x]]

\* [heap[id].copy() for id in ids]: the new objects, appended to the heap
copies(h, ids) == [k \in 1..Len(ids) |-> h[ids[k]]]

\* [x.extracted for x in hits]: the list holds the hits' own dicts
list_of_aliases(h, ids) == [heap |-> h, list |-> ids]

\* [x.extracted.copy() for x in hits]: the heap with the new objects, and the
\* list of their ids
list_of_copies(h, ids) ==
    [heap |-> h \o copies(h, ids), list |-> [k \in 1..Len(ids) |-> Len(h) + k]]

Rotate(l, r) == SubSeq(l, r + 1, Len(l)) \o SubSeq(l, 1, r)
Reverse(l) == [k \in 1..Len(l) |-> l[Len(l) + 1 - k]]

\* shuffle(l) after seed(1) leaves one permutation of l, which one depends on
\* the generator; the outcomes explored are the rotations and the reversal
ShuffleOutcomes(l) == {Rotate(l, r) : r \in 0..(Len(l) - 1)} \cup {Reverse(l)}

\* the texts of the extracted fields
HitFormulas == {<<"A", "l">>, <<"C", "u", "O">>}
ZTStrings == {<<"0", ".", "4">>, <<"1">>, <<"0", ".", "0", "4">>}
HitRecords == [formula : HitFormulas, ZT : ZTStrings]

\* lists of n extracted dicts: all alike but for one, at a position of J
HitLists(n, J) ==
    IF n = 0 THEN {<<>>}
    ELSE {[k \in 1..n |-> IF k = j THEN r1 ELSE r2] :
            j \in J, r1 \in HitRecords, r2 \in HitRecords}

Ids(n) == [k \in 1..n |-> k]

InitSplit ==
    /\ pc = "copy_hits"
    /\ \E n \in 0..MaxHits :
         /\ heap \in HitLists(n, {1, n})
         /\ hits = Ids(n)
    /\ full_data = <<>> /\ known_subset = <<>> /\ unknown_subset = <<>>
    /\ IdleScore
    /\ files = [f \in FileNames |-> NoFile]
    /\ IdleStoich /\ IdleEnthalpy /\ IdleLI /\ prev = <<>>
    /\ IdlePoints
    /\ IdleTable /\ IdleLookup /\ IdleUpload

\* full_data = [x.extracted.copy() for x in search_result.hits]
CopyHits ==
    /\ pc = "copy_hits"
    /\ LET made == list_of_copies(heap, hits)
       IN  heap' = made.heap /\ full_data' = made.list
    /\ pc' = "shuffle"
    /\ UNCHANGED <<hits, known_subset, unknown_subset, scoreVars, files,
                   stoichVars, enthalpyVars, liVars, prev, pointsVars,
                   tableVars, lookupVars, uploadVars>>

\* shuffle(full_data)
Shuffle ==
    /\ pc = "shuffle"
    /\ full_data' \in ShuffleOutcomes(full_data)
    /\ pc' = "slice_known"
    /\ UNCHANGED <<heap, hits, known_subset, unknown_subset, scoreVars, files,
                   stoichVars, enthalpyVars, liVars, prev, pointsVars,
                   tableVars, lookupVars, uploadVars>>

\* known_subset = full_data[:20]
SliceKnown ==
    /\ pc = "slice_known"
    /\ known_subset' = slice_to(full_data, KnownSize)
    /\ pc' = "slice_unknown"
    /\ UNCHANGED <<heap, hits, full_data, unknown_subset, scoreVars, files,
                   stoichVars, enthalpyVars, liVars, prev, pointsVars,
                   tableVars, lookupVars, uploadVars>>

\* unknown_subset = full_data[20:]
SliceUnknown ==
    /\ pc = "slice_unknown"
    /\ unknown_subset' = slice_from(full_data, KnownSize)
    /\ pc' = "del_loop"
    /\ idx' = 1
    /\ UNCHANGED <<heap, hits, full_data, known_subset, scoreVars, files,
                   stoichVars, enthalpyVars, liVars, prev, AlCu_pifs, points,
                   tableVars, lookupVars, uploadVars>>

\* one iteration of "for x in unknown_subset: del x['ZT']"
DelZT ==
    /\ pc = "del_loop"
    /\ idx <= Len(unknown_subset)
    /\ LET x == unknown_subset[idx]
       IN  IF "ZT" \in DOMAIN heap[x]
             THEN /\ heap' = [heap EXCEPT ![x] = dict_del(heap[x], "ZT")]
                  /\ idx' = idx + 1
                  /\ pc' = pc
             ELSE /\ heap' = heap
                  /\ idx' = idx
                  /\ pc' = "KeyError"
    /\ UNCHANGED <<hits, full_data, known_subset, unknown_subset, scoreVars, files,
                   stoichVars, enthalpyVars, liVars, prev, AlCu_pifs, points,
                   tableVars, lookupVars, uploadVars>>

DelLoopEnd ==
    /\ pc = "del_loop"
    /\ idx > Len(unknown_subset)
    /\ pc' = "split_done"
    /\ UNCHANGED <<splitVars, scoreVars, files,
                   stoichVars, enthalpyVars, liVars, prev, pointsVars,
                   tableVars, lookupVars, uploadVars>>

NextSplit == CopyHits \/ Shuffle \/ SliceKnown \/ SliceUnknown \/ DelZT \/ DelLoopEnd

SpecSplit == InitSplit /\ [][NextSplit]_vars

(***************************************************************************)
(* Claims about the split step (specification SpecSplit).                  *)
(***************************************************************************)
\* how often the id occurs in the list
Occurrences(l, id) == Cardinality({k \in 1..Len(l) : l[k] = id})

\* C19: after the split step known_subset holds the first min(20, N) records
\* of the shuffled list and unknown_subset the others; the two share no record
\* and together hold every record of full_data exactly once; the known
\* records keep their 'ZT', the unknown ones have no 'ZT' and keep 'formula'.
C19_SplitPartitions ==
    pc = "split_done" =>
        LET N == Len(hits)
            k == IF N < KnownSize THEN N ELSE KnownSize
        IN  /\ Len(full_data) = N
            /\ \A h \in 1..N : Occurrences(full_data, Len(hits) + h) = 1
            /\ Len(known_subset) = k
            /\ \A a \in 1..k : known_subset[a] = full_data[a]
            /\ Len(unknown_subset) = N - k
            /\ \A b \in 1..(N - k) : unknown_subset[b] = full_data[k + b]
            /\ \A a \in 1..k : \A b \in 1..(N - k) : known_subset[a] # unknown_subset[b]
            /\ \A c \in 1..N :
                 Occurrences(known_subset, full_data[c])
                     + Occurrences(unknown_subset, full_data[c]) = 1
            /\ \A a \in 1..k :
                 /\ "ZT" \in DOMAIN heap[known_subset[a]]
                 /\ heap[known_subset[a]] = heap[known_subset[a] - N]
            /\ \A b \in 1..(N - k) :
                 /\ "ZT" \notin DOMAIN heap[unknown_subset[b]]
                 /\ "formula" \in DOMAIN heap[unknown_subset[b]]
                 /\ heap[unknown_subset[b]].formula = heap[unknown_subset[b] - N].formula

\* 22 hits, shuffled, have been split into 20 known and 2 unknown records
C19_Witness ==
    /\ pc = "split_done"
    /\ Len(hits) = 22
    /\ full_data[1] # Len(hits) + 1
    /\ Len(known_subset) = KnownSize
    /\ Len(unknown_subset) = 2
    /\ DOMAIN heap[unknown_subset[2]] = {"formula"}
    /\ DOMAIN heap[known_subset[KnownSize]] = {"formula", "ZT"}

\* C27: deleting 'ZT' from the records of unknown_subset leaves the search
\* results as they were: no step of the split changes a hit's extracted dict,
\* and after the split every hit still has its 'formula' and its 'ZT', the
\* records of full_data being other objects than the hits' dicts.
C27_HitsKeepZT ==
    /\ [][/\ hits' = hits
          /\ \A h \in 1..Len(hits) : heap'[hits[h]] = heap[hits[h]]]_vars
    /\ [](pc = "split_done" =>
            /\ \A h \in 1..Len(hits) :
                 /\ DOMAIN heap[hits[h]] = {"formula", "ZT"}
                 /\ heap[hits[h]] \in HitRecords
            /\ \A h \in 1..Len(hits) : \A c \in 1..Len(full_data) :
                 full_data[c] # hits[h])

\* 'ZT' has been deleted from the one unknown record of 21 hits
C27_Witness ==
    /\ pc = "split_done"
    /\ Len(hits) = KnownSize + 1
    /\ Len(unknown_subset) = 1
    /\ "ZT" \notin DOMAIN heap[unknown_subset[1]]
    /\ \A h \in 1..Len(hits) : "ZT" \in DOMAIN heap[hits[h]]

(***************************************************************************)
(* write_csv and the cell that calls it on known_subset.                   *)
(***************************************************************************)
MaxRows == 3       \* most hits in the runs that write the file

\* the state the split step leaves for hits with the extracted dicts recs,
\* when the shuffle leaves the list as it was
SplitDone(recs) ==
    LET N == Len(recs)
    IN  /\ hits = Ids(N)
        /\ heap = recs \o [k \in 1..N |->
                             IF k <= KnownSize THEN recs[k] ELSE dict_del(recs[k], "ZT")]
        /\ full_data = [k \in 1..N |-> N + k]
        /\ known_subset = slice_to([k \in 1..N |-> N + k], KnownSize)
        /\ unknown_subset = slice_from([k \in 1..N |-> N + k], KnownSize)

HeaderLine ==
    <<"F", "O", "R", "M", "U", "L", "A", ",", " ", "P", "R", "O", "P", "E", "R",
      "T", "Y", ":", " ", "Z", "T", " ">>

\* open(name, "a"): the old content is kept
open_a(fs, name) == IF fs[name] = NoFile THEN <<>> ELSE fs[name]

\* open(name, "w"): the file is created or truncated
open_w(fs, name) == <<>>

\* "{formula:s}, {ZT:s}\n".format(**row), both fields being strings
format_row(row) == row.formula \o <<",", " ">> \o row.ZT \o <<"\n">>

RECURSIVE write_rows(_, _)
write_rows(content, rows) ==
    IF rows = <<>> THEN content
    ELSE write_rows(content \o format_row(Head(rows)), Tail(rows))

\* the files after write_csv(name, rows)
write_csv(fs, name, rows) ==
    [fs EXCEPT ![name] = write_rows(open_w(fs, name) \o HeaderLine \o <<"\n">>, rows)]

OldContent == <<"o", "l", "d", "\n", "o", "l", "d", "\n", "o", "l", "d", "\n",
                "o", "l", "d", "\n", "o", "l", "d", "\n", "o", "l", "d", "\n">>
PreviousContents == {NoFile, <<>>, OldContent}

\* the rows a list of ids stands for
Rows(ids) == [k \in 1..Len(ids) |-> heap[ids[k]]]

InitCsv ==
    /\ pc = "write_csv"
    /\ \E n \in 0..MaxRows : \E recs \in [1..n -> HitRecords] : SplitDone(recs)
    /\ files \in [FileNames -> PreviousContents]
    /\ IdleScore
    /\ IdleStoich /\ IdleEnthalpy /\ IdleLI /\ prev = <<>>
    /\ IdlePoints
    /\ IdleTable /\ IdleLookup /\ IdleUpload

\* write_csv('known_thermoelectrics.csv', known_subset)
CallWriteCsv ==
    /\ pc = "write_csv"
    /\ files' = write_csv(files, "known_thermoelectrics.csv", Rows(known_subset))
    /\ pc' = "csv_written"
    /\ UNCHANGED <<splitVars, scoreVars, stoichVars, enthalpyVars, liVars, prev, pointsVars,
                   tableVars, lookupVars, uploadVars>>

NextCsv == CallWriteCsv

SpecCsv == InitCsv /\ [][NextCsv]_vars

(***************************************************************************)
(* Claims about write_csv (specification SpecCsv).                         *)
(***************************************************************************)
\* the lines of a text, a line ending at its line feed or at the end
RECURSIVE SplitLines(_)
SplitLines(c) ==
    IF c = <<>> THEN <<>>
    ELSE LET p == CHOOSE q \in 1..(Len(c) + 1) :
                    /\ q = Len(c) + 1 \/ c[q] = "\n"
                    /\ \A r \in 1..(q - 1) : c[r] # "\n"
         IN  IF p > Len(c) THEN <<c>>
             ELSE <<SubSeq(c, 1, p - 1)>> \o SplitLines(SubSeq(c, p + 1, Len(c)))

ValueError == [t |-> "ValueError", num |-> 0, den |-> 1]
Failed(a) == a.t \in {"ZeroDivisionError", "ValueError"}

\* float(txt) for a text: digits with at most one point; other texts are refused
float_of_str(txt) ==
    LET dots == {q \in 1..Len(txt) : txt[q] = "."}
        digits == SelectSeq(txt, LAMBDA c : c \in Digits)
    IN  IF digits = <<>> \/ Cardinality(dots) > 1
           \/ Len(digits) + Cardinality(dots) # Len(txt)
          THEN ValueError
          ELSE LET fracLen == IF dots = {} THEN 0
                              ELSE Len(txt) - (CHOOSE q \in dots : TRUE)
               IN  PyFloat(DigitsToInt(digits), Pow10(fracLen))

RECURSIVE min_from(_, _)
min_from(best, rest) ==
    IF rest = <<>> THEN best
    ELSE min_from(IF PyLt(Head(rest), best) THEN Head(rest) ELSE best, Tail(rest))

\* the smallest value instead of the largest
py_min(vals) == IF vals = <<>> THEN ValueError ELSE min_from(Head(vals), Tail(vals))

RECURSIVE max_from(_, _)
max_from(best, rest) ==
    IF rest = <<>> THEN best
    ELSE max_from(IF PyLt(best, Head(rest)) THEN Head(rest) ELSE best, Tail(rest))

\* max(vals); an empty sequence is refused
py_max(vals) == IF vals = <<>> THEN ValueError ELSE max_from(Head(vals), Tail(vals))

\* what the trained model may predict for a candidate
PredictedZT == {PyFloat(1, 4), PyFloat(1, 1)}
PredictedLoss == {PyFloat(0, 1), PyFloat(1, 2)}
PredictionValues == [value : PredictedZT, loss : PredictedLoss, LI : {None}]

InitScore ==
    /\ pc = "baseline"
    /\ \E n \in 0..MaxHits : \E recs \in HitLists(n, 1..n) : SplitDone(recs)
    /\ files = write_csv([f \in FileNames |-> NoFile], "known_thermoelectrics.csv",
                         Rows(known_subset))
    /\ IdleScore
    /\ IdleStoich /\ IdleEnthalpy /\ IdleLI /\ prev = <<>>
    /\ IdlePoints
    /\ IdleTable /\ IdleLookup /\ IdleUpload

\* baseline_ZT = max(float(x['ZT']) for x in known_subset)
ComputeBaseline ==
    /\ pc = "baseline"
    /\ LET b == py_max([k \in 1..Len(known_subset) |->
                          float_of_str(heap[known_subset[k]].ZT)])
       IN  IF Failed(b)
             THEN baseline_ZT' = baseline_ZT /\ pc' = "ValueError"
             ELSE baseline_ZT' = b /\ pc' = "predict"
    /\ UNCHANGED <<splitVars, predictions, files,
                   stoichVars, enthalpyVars, liVars, prev, pointsVars,
                   tableVars, lookupVars, uploadVars>>

\* predictions = client.models.predict(view_id, unknown_subset)
Predict ==
    /\ pc = "predict"
    /\ predictions' \in [1..Len(unknown_subset) -> PredictionValues]
    /\ idx' = 1
    /\ pc' = "score_loop"
    /\ UNCHANGED <<splitVars, baseline_ZT, files,
                   stoichVars, enthalpyVars, liVars, prev, AlCu_pifs, points,
                   tableVars, lookupVars, uploadVars>>

\* one iteration of "for p in predictions"
ScorePrediction ==
    /\ pc = "score_loop"
    /\ idx <= Len(predictions)
    /\ LET p_value == predictions[idx]
           li == probability_improvement(float_of_number(p_value.value),
                                         float_of_number(p_value.loss), baseline_ZT)
       IN  IF Failed(li)
             THEN /\ predictions' = predictions
                  /\ idx' = idx
                  /\ pc' = "ZeroDivisionError"
             ELSE /\ predictions' = [predictions EXCEPT ![idx].LI = li]
                  /\ idx' = idx + 1
                  /\ pc' = pc
    /\ UNCHANGED <<splitVars, baseline_ZT, files,
                   stoichVars, enthalpyVars, liVars, prev, AlCu_pifs, points,
                   tableVars, lookupVars, uploadVars>>

ScoreLoopEnd ==
    /\ pc = "score_loop"
    /\ idx > Len(predictions)
    /\ pc' = "scored"
    /\ UNCHANGED <<designVars, stoichVars, enthalpyVars, liVars, prev, pointsVars,
                   tableVars, lookupVars, uploadVars>>

NextScore == ComputeBaseline \/ Predict \/ ScorePrediction \/ ScoreLoopEnd

SpecScore == InitScore /\ [][NextScore]_vars

(***************************************************************************)
(* Claims about the baseline and the scoring loop (specification           *)
(* SpecScore).                                                             *)
(***************************************************************************)
\* the prediction the loop is about to score
AtPrediction == pc = "score_loop" /\ idx <= Len(predictions)

ZeroLoss(p) == PyEq(p.loss, Zero)

\* C12: with sigma = 0 probability_improvement returns no value, whatever the
\* mean and the baseline: the division by zero leaves the function and ends
\* the scoring loop, which hands the loss over unchecked; the prediction gets
\* no LI and the loop never completes past it.
C12_ZeroSigmaRaises ==
    /\ [](AtPrediction /\ ZeroLoss(predictions[idx]) =>
            \A m \in ZTValues \cup {predictions[idx].value} :
                \A b \in ZTValues \cup {baseline_ZT} :
                    LET r == probability_improvement(m, predictions[idx].loss, b)
                    IN  Raised(r) /\ ~IsNumber(r))
    /\ [](\A k \in 1..Len(predictions) :
            ZeroLoss(predictions[k]) => predictions[k].LI = None /\ idx <= k)
    /\ [](pc = "scored" => \A k \in 1..Len(predictions) : ~ZeroLoss(predictions[k]))
    /\ [][AtPrediction /\ ZeroLoss(predictions[idx]) =>
            pc' = "ZeroDivisionError" /\ predictions' = predictions]_vars

\* the second prediction has a zero loss: the first has its LI, the second has
\* stopped the loop
C12_Witness ==
    /\ pc = "ZeroDivisionError"
    /\ Len(predictions) = 2
    /\ idx = 2
    /\ IsNumber(predictions[1].LI)
    /\ ZeroLoss(predictions[2])
    /\ predictions[2].LI = None

\* the number the ZT text of a record denotes
ZTOf(id) == CountValue(heap[id].ZT)

BaselineSet == pc \in {"predict", "score_loop", "scored", "ZeroDivisionError"}

\* C18: baseline_ZT is the largest ZT of known_subset (no known ZT exceeds it
\* and one equals it), it is assigned once and not changed while predictions
\* are scored, and every scored prediction carries
\* probability_improvement(value, loss, baseline_ZT); the loop that completes
\* has scored one prediction per record of unknown_subset.
C18_BaselineIsBestKnown ==
    /\ [](BaselineSet =>
            /\ baseline_ZT.t = "float"
            /\ \A k \in 1..Len(known_subset) : PyLe(ZTOf(known_subset[k]), baseline_ZT)
            /\ \E k \in 1..Len(known_subset) : PyEq(ZTOf(known_subset[k]), baseline_ZT))
    /\ [](pc \in {"score_loop", "scored", "ZeroDivisionError"} =>
            /\ Len(predictions) = Len(unknown_subset)
            /\ \A k \in 1..Len(predictions) :
                 IF k < idx
                   THEN predictions[k].LI =
                          probability_improvement(float_of_number(predictions[k].value),
                                                  float_of_number(predictions[k].loss),
                                                  baseline_ZT)
                   ELSE predictions[k].LI = None)
    /\ [](pc = "scored" => idx = Len(unknown_subset) + 1)
    /\ [][BaselineSet => baseline_ZT' = baseline_ZT]_vars

\* two predictions have been scored against a best ZT that is not the first
\* known record's
C18_Witness ==
    /\ pc = "scored"
    /\ Len(predictions) = 2
    /\ Len(known_subset) = KnownSize
    /\ PyLt(ZTOf(known_subset[1]), baseline_ZT)
    /\ PyLt(ZTOf(known_subset[1]), ZTOf(known_subset[7]))
    /\ IsNumber(predictions[1].LI)
    /\ predictions[1].LI # predictions[2].LI

(***************************************************************************)
(* The low-level lookup of the total energy in the properties of a PIF.    *)
(* A property is its name and value, the value standing for                *)
(* scalars[0].value.                                                       *)
(***************************************************************************)
MaxProps == 4      \* longest list of properties

StopIteration == [t |-> "StopIteration", num |-> 0, den |-> 1]

\* the last property of that name instead of the first
RECURSIVE last_with_name(_, _)
last_with_name(props, name) ==
    IF props = <<>> THEN StopIteration
    ELSE IF props[Len(props)].name = name THEN props[Len(props)]
    ELSE last_with_name(SubSeq(props, 1, Len(props) - 1), name)

\* next(x for x in props if x.name == name)
RECURSIVE next_with_name(_, _)
next_with_name(props, name) ==
    IF props = <<>> THEN StopIteration
    ELSE IF Head(props).name = name THEN Head(props)
    ELSE next_with_name(Tail(props), name)

PropertyNames == {"Total Energy", "Band Gap"}
PropertyValues == {PyFloat(-3, 2), PyFloat(1, 2)}
Properties == [name : PropertyNames, value : PropertyValues]

InitLookup ==
    /\ pc = "lookup"
    /\ pif_properties \in UNION {[1..k -> Properties] : k \in 0..MaxProps}
    /\ found = None
    /\ IdleStoich /\ IdleEnthalpy /\ IdleLI /\ prev = <<>>
    /\ IdlePoints /\ IdleDesign /\ IdleTable /\ IdleUpload

\* next(x for x in pif.properties if x.name == "Total Energy").scalars[0].value
Lookup ==
    /\ pc = "lookup"
    /\ found' = next_with_name(pif_properties, "Total Energy")
    /\ pc' = IF found' = StopIteration THEN "StopIteration" ELSE "lookup_done"
    /\ UNCHANGED <<pif_properties, stoichVars, enthalpyVars, liVars, prev,
                   pointsVars, designVars, tableVars, uploadVars>>

NextLookup == Lookup

SpecLookup == InitLookup /\ [][NextLookup]_vars

(***************************************************************************)
(* Claims about the lookup (specification SpecLookup).                     *)
(***************************************************************************)
\* positions of the properties named "Total Energy"
TotalEnergyAt == {k \in 1..Len(pif_properties) : pif_properties[k].name = "Total Energy"}

\* C23: when the list has a property named "Total Energy" the lookup yields
\* the first such property in list order, whatever follows it; when it has
\* none the lookup yields no value and the cell ends in StopIteration.
C23_FirstTotalEnergy ==
    pc # "lookup" =>
        IF TotalEnergyAt # {}
          THEN /\ pc = "lookup_done"
               /\ \E k \in TotalEnergyAt :
                    /\ \A j \in TotalEnergyAt : k <= j
                    /\ found = pif_properties[k]
          ELSE /\ pc = "StopIteration"
               /\ found \notin Properties

\* the first of two "Total Energy" properties, after a "Band Gap", was found
C23_Witness ==
    /\ pc = "lookup_done"
    /\ TotalEnergyAt = {2, 4}
    /\ pif_properties[2].value # pif_properties[4].value
    /\ found = pif_properties[2]

(***************************************************************************)
(* The upload script: create a dataset, save the PIF to a file, upload the *)
(* file.  The cells run top to bottom and an exception ends the run.       *)
(***************************************************************************)
PifFile == "example_data/pif.json"

DatasetIds == {PyInt(150888), PyInt(174256)}
PifObjects == [chemical_formula : HitFormulas \cup PifFormulas]

\* pif.dumps(obj): the JSON text of the object
pif_dumps(obj) ==
    <<"{", "\"", "f", "\"", ":", "\"">> \o obj.chemical_formula \o <<"\"", "}">>

\* an exception raised inside the with block is swallowed
after_with_swallowing(raising) == "upload"

\* where the script goes on after the with block has closed the file
after_with(raising) == IF raising THEN "IOError" ELSE "upload"

InitUpload ==
    /\ pc = "create_dataset"
    /\ my_pif \in PifObjects
    /\ dataset_id = None
    /\ fp = "unbound"
    /\ uploads = <<>>
    /\ files \in [{PifFile} -> PreviousContents]
    /\ IdleSplit /\ IdleScore
    /\ IdleStoich /\ IdleEnthalpy /\ IdleLI /\ prev = <<>>
    /\ IdlePoints /\ IdleTable /\ IdleLookup

\* dataset = data_client.create_dataset(...); dataset_id = dataset._id
CreateDataset ==
    /\ pc = "create_dataset"
    /\ \/ \E id \in DatasetIds : dataset_id' = id /\ pc' = "open"
       \/ dataset_id' = dataset_id /\ pc' = "CitrinationClientError"
    /\ UNCHANGED <<fp, uploads, my_pif, files, splitVars, scoreVars,
                   stoichVars, enthalpyVars, liVars, prev,
                   pointsVars, tableVars, lookupVars>>

\* with open(filename, 'w') as fp
OpenPifFile ==
    /\ pc = "open"
    /\ \/ /\ files' = [files EXCEPT ![PifFile] = open_w(files, PifFile)]
          /\ fp' = "open"
          /\ pc' = "dump"
       \/ /\ files' = files
          /\ fp' = fp
          /\ pc' = "IOError"
    /\ UNCHANGED <<dataset_id, uploads, my_pif, splitVars, scoreVars,
                   stoichVars, enthalpyVars, liVars, prev,
                   pointsVars, tableVars, lookupVars>>

\* pif.dump(my_pif, fp): the whole text is written, or a write fails and
\* leaves the part written before it
DumpPif ==
    /\ pc = "dump"
    /\ LET text == pif_dumps(my_pif)
       IN  \/ /\ files' = [files EXCEPT ![PifFile] = files[PifFile] \o text]
              /\ pc' = "with_exit"
           \/ \E n \in 0..(Len(text) - 1) :
                /\ files' = [files EXCEPT ![PifFile] = files[PifFile] \o SubSeq(text, 1, n)]
                /\ pc' = "with_exit_raising"
    /\ UNCHANGED <<dataset_id, fp, uploads, my_pif, splitVars, scoreVars,
                   stoichVars, enthalpyVars, liVars, prev,
                   pointsVars, tableVars, lookupVars>>

\* leaving the with block closes the file, whether an exception is passing or not
WithExit ==
    /\ pc \in {"with_exit", "with_exit_raising"}
    /\ fp' = "closed"
    /\ pc' = after_with(pc = "with_exit_raising")
    /\ UNCHANGED <<dataset_id, uploads, my_pif, files, splitVars, scoreVars,
                   stoichVars, enthalpyVars, liVars, prev,
                   pointsVars, tableVars, lookupVars>>

\* result = data_client.upload(dataset_id, filename)
Upload ==
    /\ pc = "upload"
    /\ \E ok \in BOOLEAN :
         uploads' = Append(uploads, [dataset_id |-> dataset_id,
                                     filename |-> PifFile,
                                     content |-> files[PifFile],
                                     fp |-> fp,
                                     successful |-> ok])
    /\ pc' = "print"
    /\ UNCHANGED <<dataset_id, fp, my_pif, files, splitVars, scoreVars,
                   stoichVars, enthalpyVars, liVars, prev,
                   pointsVars, tableVars, lookupVars>>

\* print('Upload successful? {0}'.format(result.successful()))
PrintResult ==
    /\ pc = "print"
    /\ pc' = "upload_done"
    /\ UNCHANGED <<uploadVars, designVars, stoichVars, enthalpyVars, liVars, prev,
                   pointsVars, tableVars, lookupVars>>

NextUpload ==
    CreateDataset \/ OpenPifFile \/ DumpPif \/ WithExit \/ Upload \/ PrintResult

SpecUpload == InitUpload /\ [][NextUpload]_vars

MaxPredictions == 6    \* most predictions in the runs that build the table
TableSize == 5         \* df.sort_values(...)[0:5]

DigitChar(k) ==
    CASE k = 0 -> "0" [] k = 1 -> "1" [] k = 2 -> "2" [] k = 3 -> "3"
      [] k = 4 -> "4" [] k = 5 -> "5" [] k = 6 -> "6" [] k = 7 -> "7"
      [] k = 8 -> "8" [] k = 9 -> "9"

\* the decimal digits of a natural number
RECURSIVE str_of_nat(_)
str_of_nat(n) ==
    IF n < 10 THEN <<DigitChar(n)>> ELSE str_of_nat(n \div 10) \o <<DigitChar(n % 10)>>

\* txt filled on the left with the character c up to the width w
RECURSIVE left_padded(_, _, _)
left_padded(txt, w, c) == IF Len(txt) >= w THEN txt ELSE left_padded(<<c>> \o txt, w, c)

\* num/den, not negative, rounded to the nearest integer, halves to the even one
round_half_even(num, den) ==
    LET q == num \div den
        r == num % den
    IN  IF 2 * r < den THEN q
        ELSE IF 2 * r > den THEN q + 1
        ELSE IF q % 2 = 0 THEN q ELSE q + 1

\* "{:w.df}".format(x)
format_f(x, w, d) ==
    LET scaled == round_half_even(Abs(x.num) * Pow10(d), x.den)
        body == str_of_nat(scaled \div Pow10(d)) \o <<".">>
                    \o left_padded(str_of_nat(scaled % Pow10(d)), d, "0")
    IN  left_padded((IF x.num < 0 THEN <<"-">> ELSE <<>>) \o body, w, " ")

\* the code point order of the characters the formats produce
Ord(c) ==
    CASE c = " " -> 32 [] c = "+" -> 43 [] c = "-" -> 45 [] c = "." -> 46
      [] c = "/" -> 47 [] OTHER -> 48 + DigitValue(c)

\* a < b for two strings
RECURSIVE str_lt(_, _)
str_lt(a, b) ==
    IF b = <<>> THEN FALSE
    ELSE IF a = <<>> THEN TRUE
    ELSE IF Head(a) = Head(b) THEN str_lt(Tail(a), Tail(b))
    ELSE Ord(Head(a)) < Ord(Head(b))

\* the threshold 1e-03 of the filter
Threshold == PyFloat(1, 1000)

\* li >= 1e-03
passes_filter_or_equal(li) == PyLe(Threshold, li)

\* li > 1e-03
passes_filter(li) == PyLt(Threshold, li)

\* the orders in which an ascending sort on the column LI may leave the rows
RECURSIVE sorted_ascending(_)
sorted_ascending(rows) ==
    IF rows = {} THEN {<<>>}
    ELSE UNION {{<<r>> \o t : t \in sorted_ascending(rows \ {r})} :
                  r \in {x \in rows : \A y \in rows : ~str_lt(y.LI, x.LI)}}

\* sort_values('LI', ascending=False) on a column of strings: the rows in
\* non-increasing order of the strings; the sort is not a stable one, rows
\* with equal strings come in any order
RECURSIVE sorted_descending(_)
sorted_descending(rows) ==
    IF rows = {} THEN {<<>>}
    ELSE UNION {{<<r>> \o t : t \in sorted_descending(rows \ {r})} :
                  r \in {x \in rows : \A y \in rows : ~str_lt(x.LI, y.LI)}}

\* (value, loss) of the predictions explored; with the baseline 0.4 their LI
\* lie on both sides of the threshold and two of them differ only after the
\* third decimal
PredictionOptions ==
    << [value |-> PyFloat(2, 5), loss |-> PyFloat(1, 1)],
       [value |-> PyFloat(17, 10), loss |-> PyFloat(2, 5)],
       [value |-> PyFloat(-3, 2), loss |-> PyFloat(3, 5)],
       [value |-> PyFloat(2, 1), loss |-> PyFloat(1, 2)],
       [value |-> PyFloat(-1, 1), loss |-> PyFloat(1, 2)],
       [value |-> PyFloat(0, 1), loss |-> PyFloat(1, 2)],
       [value |-> PyFloat(1, 4), loss |-> PyFloat(1, 10)],
       [value |-> PyFloat(-1, 1), loss |-> PyFloat(1, 4)] >>

\* lists of n predictions: the first n options, one of them replaced, in a
\* rotated or reversed order
OptionLists(n) ==
    IF n = 0 THEN {<<>>}
    ELSE UNION {ShuffleOutcomes(
                  [k \in 1..n |->
                     IF k = j THEN PredictionOptions[o]
                     ELSE PredictionOptions[((k - 1) % Len(PredictionOptions)) + 1]]) :
                  j \in 1..n, o \in 1..Len(PredictionOptions)}

\* the hits of a run with n candidates: every known ZT is "0.4"
HitsWithCandidates(n) ==
    [k \in 1..(KnownSize + n) |->
        [formula |-> IF k % 2 = 0 THEN <<"A", "l">> ELSE <<"C", "u", "O">>,
         ZT |-> <<"0", ".", "4">>]]

\* the state after the scoring loop
InitTop ==
    /\ pc = "filter_loop"
    /\ \E n \in 0..MaxPredictions :
         /\ SplitDone(HitsWithCandidates(n))
         /\ \E opts \in OptionLists(n) :
              predictions =
                [k \in 1..n |->
                   [value |-> opts[k].value, loss |-> opts[k].loss,
                    LI |-> probability_improvement(float_of_number(opts[k].value),
                                                   float_of_number(opts[k].loss),
                                                   PyFloat(2, 5))]]
    /\ baseline_ZT = PyFloat(2, 5)
    /\ files = write_csv([f \in FileNames |-> NoFile], "known_thermoelectrics.csv",
                         Rows(known_subset))
    /\ idx = 1 /\ AlCu_pifs = <<>> /\ points = <<>>
    /\ top_predictions = <<>> /\ df = <<>> /\ table = <<>>
    /\ IdleStoich /\ IdleEnthalpy /\ IdleLI /\ prev = <<>>
    /\ IdleLookup /\ IdleUpload

\* one iteration of "for p in predictions"
FilterPrediction ==
    /\ pc = "filter_loop"
    /\ idx <= Len(predictions)
    /\ LET li == predictions[idx].LI
           form == heap[unknown_subset[idx]].formula
           zt == predictions[idx]
       IN  top_predictions' =
             IF passes_filter(li)
               THEN Append(top_predictions,
                           [formula |-> form, PropertyZT |-> <<zt.value, zt.loss>>, LI |-> li])
               ELSE top_predictions
    /\ idx' = idx + 1
    /\ UNCHANGED <<pc, df, table, designVars, stoichVars, enthalpyVars, liVars, prev,
                   AlCu_pifs, points, lookupVars, uploadVars>>

FilterLoopEnd ==
    /\ pc = "filter_loop"
    /\ idx > Len(predictions)
    /\ pc' = "make_frame"
    /\ UNCHANGED <<tableVars, designVars, stoichVars, enthalpyVars, liVars, prev,
                   pointsVars, lookupVars, uploadVars>>

\* df = pd.DataFrame(top_predictions, columns=[...]): one row per entry, the
\* index counting from 0
MakeFrame ==
    /\ pc = "make_frame"
    /\ df' = [k \in 1..Len(top_predictions) |->
                [index |-> k - 1,
                 formula |-> top_predictions[k].formula,
                 PropertyZT |-> top_predictions[k].PropertyZT,
                 LI |-> top_predictions[k].LI]]
    /\ pc' = "format_ZT"
    /\ UNCHANGED <<top_predictions, table, designVars, stoichVars, enthalpyVars, liVars,
                   prev, pointsVars, lookupVars, uploadVars>>

\* df['Property ZT'] = df['Property ZT'].map("{:5.2f} +/- {:5.2f}".format(*x))
FormatZT ==
    /\ pc = "format_ZT"
    /\ df' = [k \in 1..Len(df) |->
                [df[k] EXCEPT !.PropertyZT =
                    format_f(df[k].PropertyZT[1], 5, 2) \o <<" ", "+", "/", "-", " ">>
                        \o format_f(df[k].PropertyZT[2], 5, 2)]]
    /\ pc' = "format_LI"
    /\ UNCHANGED <<top_predictions, table, designVars, stoichVars, enthalpyVars, liVars,
                   prev, pointsVars, lookupVars, uploadVars>>

\* df['LI'] = df['LI'].map("{:5.3f}".format(x))
FormatLI ==
    /\ pc = "format_LI"
    /\ df' = [k \in 1..Len(df) |-> [df[k] EXCEPT !.LI = format_f(df[k].LI, 5, 3)]]
    /\ pc' = "sort"
    /\ UNCHANGED <<top_predictions, table, designVars, stoichVars, enthalpyVars, liVars,
                   prev, pointsVars, lookupVars, uploadVars>>

\* df.sort_values('LI', axis=0, ascending=False)[0:5]
SortValues ==
    /\ pc = "sort"
    /\ \E sorted \in sorted_descending({df[k] : k \in 1..Len(df)}) :
         table' = slice_to(sorted, TableSize)
    /\ pc' = "table_shown"
    /\ UNCHANGED <<top_predictions, df, designVars, stoichVars, enthalpyVars, liVars,
                   prev, pointsVars, lookupVars, uploadVars>>

NextTop ==
    FilterPrediction \/ FilterLoopEnd \/ MakeFrame \/ FormatZT \/ FormatLI \/ SortValues

SpecTop == InitTop /\ [][NextTop]_vars

(***************************************************************************)
(* Claims about the table of the top predictions (specification SpecTop).  *)
(***************************************************************************)
\* the predictions the loop has looked at
Filtered == IF pc = "filter_loop" THEN 1..(idx - 1) ELSE 1..Len(predictions)

\* the positions, among those, of the predictions with LI > 0.001
AboveThreshold == {k \in Filtered : PyLt(PyFloat(1, 1000), predictions[k].LI)}

\* C21: top_predictions holds exactly the predictions whose LI is strictly
\* greater than 0.001, one entry for each, in the order they have in
\* predictions; a prediction with LI <= 0.001 is never in it.
C21_FilterKeepsAboveThreshold ==
    /\ Len(top_predictions) = Cardinality(AboveThreshold)
    /\ \A k \in AboveThreshold :
         LET i == Cardinality({j \in AboveThreshold : j <= k})
         IN  /\ top_predictions[i].LI = predictions[k].LI
             /\ top_predictions[i].PropertyZT = <<predictions[k].value, predictions[k].loss>>
             /\ top_predictions[i].formula = heap[unknown_subset[k]].formula
    /\ \A i \in 1..Len(top_predictions) : PyLt(PyFloat(1, 1000), top_predictions[i].LI)

\* of six predictions the one with LI = 0.001 exactly has been left out
C21_Witness ==
    /\ pc = "make_frame"
    /\ Len(predictions) = 6
    /\ predictions[3].LI = PyFloat(1, 1000)
    /\ predictions[1].LI = PyFloat(1, 2)
    /\ Len(top_predictions) = 5
    /\ top_predictions[3].LI = predictions[4].LI

\* the LI a row of the data frame was made from
TrueLI(row) == top_predictions[row.index + 1].LI

\* a number of [0, 1] in thousandths, rounded to the nearest, halves to even
Rounded3(x) ==
    CHOOSE r \in 0..1000 :
        LET dist == Abs(2 * (1000 * x.num - r * x.den))
        IN  dist < x.den \/ (dist = x.den /\ r % 2 = 0)

\* the rows shown are rows of the frame, each at most once, and as many as
\* min(5, number of filtered rows)
TableOfFrame ==
    /\ Len(table) = Min(5, Len(top_predictions))
    /\ \A i \in 1..Len(table) : table[i] \in {df[k] : k \in 1..Len(df)}
    /\ \A i, j \in 1..Len(table) : i # j => table[i].index # table[j].index

\* no row left out has a rounded LI greater than that of a row shown
LeftOutNotGreater ==
    \A k \in 1..Len(df) : \A i \in 1..Len(table) :
        df[k] \notin {table[j] : j \in 1..Len(table)}
            => Rounded3(TrueLI(df[k])) <= Rounded3(TrueLI(table[i]))

\* C22 as stated: the table has min(5, number of filtered rows) rows, in
\* non-increasing order of their numeric LI, and no row left out has a
\* rounded LI greater than a row shown.
C22_TableByNumericLI ==
    pc = "table_shown" =>
        /\ TableOfFrame
        /\ \A i, j \in 1..Len(table) : i < j => PyLe(TrueLI(table[j]), TrueLI(table[i]))
        /\ LeftOutNotGreater

\* C22 amended: the table has min(5, number of filtered rows) rows, in
\* non-increasing order of their LI rounded to three decimals, which is the
\* number each row shows; no row left out has a rounded LI greater than a row
\* shown.
C22_TableByRoundedLI ==
    pc = "table_shown" =>
        /\ TableOfFrame
        /\ \A i \in 1..Len(table) :
             PyEq(CountValue(table[i].LI), PyFloat(Rounded3(TrueLI(table[i])), 1000))
        /\ \A i, j \in 1..Len(table) :
             i < j => Rounded3(TrueLI(table[j])) <= Rounded3(TrueLI(table[i]))
        /\ LeftOutNotGreater

\* six rows passed the filter and five are shown; two of them show "0.999"
\* and the one with the smaller LI comes first
C22_Witness ==
    /\ pc = "table_shown"
    /\ Len(df) = 6
    /\ Len(table) = 5
    /\ \E i \in 1..4 :
         /\ table[i].LI = <<"0", ".", "9", "9", "9">>
         /\ table[i + 1].LI = table[i].LI
         /\ PyLt(TrueLI(table[i]), TrueLI(table[i + 1]))

=============================================================================
